---- MODULE Spec2Model ----
(***************************************************************************)
(* A model of az_worker.py: the Detail-Page Locator                        *)
(* (get_video_detail_pages), the Media-Link Resolver                       *)
(* (find_mp4_on_detail_page), the per-record pipeline (az_download_logic)  *)
(* and the worklist loop (main).                                           *)
(*                                                                         *)
(* Python strings are sequences of one-character strings, so that          *)
(* endswith, lower, slicing, regular-expression search and lexical         *)
(* comparison are computed and not assumed.                                *)
(***************************************************************************)
EXTENDS Integers, Sequences, FiniteSets, TLC

VARIABLES
    \* ---- segment naming (az_download_logic, the download loop's names)
    name_i,            \* the enumerate() index of the next segment
    names,             \* the segment filenames produced so far, in order
    \* ---- one call of find_mp4_on_detail_page
    res_in,            \* what the fetch of detail_url does (the call's environment)
    res_pc,            \* "call", then "returned" or "raised"
    res_out,           \* the value returned (or the exception that escaped)
    \* ---- calls of get_video_detail_pages on one markup
    loc_in,            \* main_html, parsed
    loc_runs,          \* the lists returned by the calls made so far
    \* ---- main and az_download_logic
    site,              \* the content pages the web may serve during the run
    rows,              \* read_pending_rows(TAB_NAME)
    current_number,    \* main's current_number
    row_i,             \* the position in rows of the record of this turn of the loop
    next_number,       \* main's next_number, az_download_logic's number
    pc,                \* where main (or the az_download_logic it called) stands
    fs,                \* the paths that exist on the filesystem
    temp_dir,          \* az_download_logic's temp_dir
    video_detail_urls, \* az_download_logic's locals
    mp4_links,
    parts,
    manifest,          \* the lines written to files.txt
    output,
    result,            \* the (success, msg) az_download_logic returns
    updates,           \* the update_row calls made, in order
    \* ---- what happened (history)
    max_assigned,      \* what get_max_assigned_number returned
    created,           \* the temporary directories mkdtemp has made
    ops,               \* the external operations of this record, in order
    resolved,          \* per detail page of this record: the page and the resolver's result
    downloads          \* per segment written by this record: its URL and its path

nameVars == <<name_i, names>>
resVars == <<res_in, res_pc, res_out>>
locVars == <<loc_in, loc_runs>>
mainVars == <<site, rows, current_number, row_i, next_number, updates, max_assigned>>
recVars == <<fs, temp_dir, video_detail_urls, mp4_links, parts, manifest, output, result,
             created, ops, resolved, downloads>>
pipeVars == <<pc, mainVars, recVars>>
vars == <<name_i, names, res_in, res_pc, res_out, loc_in, loc_runs, pc, site, rows,
          current_number, row_i, next_number, updates, fs, temp_dir, video_detail_urls,
          mp4_links, parts, manifest, output, result, max_assigned, created, ops, resolved,
          downloads>>

(***************************************************************************)
(* Characters and strings                                                  *)
(***************************************************************************)

\* The printable ASCII characters, code 32 first (GRAVE stands for code 96).
AsciiChars ==
    << " ", "!", "\"", "#", "$", "%", "&", "'", "(", ")", "*", "+", ",", "-", ".", "/",
       "0", "1", "2", "3", "4", "5", "6", "7", "8", "9", ":", ";", "<", "=", ">", "?",
       "@", "A", "B", "C", "D", "E", "F", "G", "H", "I", "J", "K", "L", "M", "N", "O",
       "P", "Q", "R", "S", "T", "U", "V", "W", "X", "Y", "Z", "[", "\\", "]", "^", "_",
       "GRAVE", "a", "b", "c", "d", "e", "f", "g", "h", "i", "j", "k", "l", "m", "n", "o",
       "p", "q", "r", "s", "t", "u", "v", "w", "x", "y", "z", "{", "|", "}", "~" >>

Chars == {AsciiChars[k] : k \in 1..Len(AsciiChars)}

\* The code point of a character.
OrdMap == [c \in Chars |-> 31 + (CHOOSE k \in 1..Len(AsciiChars) : AsciiChars[k] = c)]

Ord(c) == OrdMap[c]

\* str.lower() on one character, then on a string.
LowerMap == [c \in Chars |-> IF Ord(c) >= 65 /\ Ord(c) <= 90
                             THEN AsciiChars[Ord(c) - 31 + 32] ELSE c]

Lower(s) == [k \in 1..Len(s) |-> LowerMap[s[k]]]

\* A Python slice, as the 1-based inclusive positions from..to; like Python's,
\* it stops at the end of the string.
Slice(s, from, to) ==
    LET last == IF to > Len(s) THEN Len(s) ELSE to
    IN IF from > last THEN <<>> ELSE SubSeq(s, from, last)

StartsWith(s, p) == Len(p) <= Len(s) /\ SubSeq(s, 1, Len(p)) = p

EndsWith(s, p) == Len(p) <= Len(s) /\ SubSeq(s, Len(s) - Len(p) + 1, Len(s)) = p

\* sub occurs in s at position k.
OccursAt(s, sub, k) == k >= 1 /\ k + Len(sub) - 1 <= Len(s)
                       /\ SubSeq(s, k, k + Len(sub) - 1) = sub

\* sub in s
Contains(s, sub) == \E k \in 1..(Len(s) + 1) : OccursAt(s, sub, k)

\* The order of str comparison (and of sorted()) on two strings.
LexLess(a, b) ==
    \E k \in 1..(Len(a) + 1) :
        /\ \A m \in 1..(k - 1) : m <= Len(b) /\ a[m] = b[m]
        /\ \/ k = Len(a) + 1 /\ Len(b) >= k
           \/ k <= Len(a) /\ k <= Len(b) /\ Ord(a[k]) < Ord(b[k])

DigitChars == <<"0", "1", "2", "3", "4", "5", "6", "7", "8", "9">>

\* str(n) for n >= 0.
RECURSIVE Digits(_)
Digits(n) == IF n < 10 THEN <<DigitChars[n + 1]>>
             ELSE Digits(n \div 10) \o <<DigitChars[(n % 10) + 1]>>

\* The minimum field width of the format specification 02d.
PadWidth == 2

RECURSIVE ZeroPad(_, _)
ZeroPad(s, w) == IF Len(s) >= w THEN s ELSE ZeroPad(<<"0">> \o s, w)

\* A mutant: the index formatted with no padding, f"{i}".
FormatNoPad(n) == Digits(n)

\* f"{n:02d}" for n >= 0: zero-padded to at least two characters, never cut.
Format02d(n) == ZeroPad(Digits(n), PadWidth)

S_part == <<"p", "a", "r", "t", "_">>
S_mp4 == <<".", "m", "p", "4">>

\* f"part_{i:02d}.mp4", the segment's name inside the temporary directory.
PartName(i) == S_part \o Format02d(i) \o S_mp4

(***************************************************************************)
(* Segment naming: the names the download loop gives to positions 0, 1, .. *)
(***************************************************************************)

\* The longest URL sequence whose names are enumerated.
MaxParts == 101

NamesIdle == name_i = 0 /\ names = <<>>

\* One turn of `for i, url in enumerate(mp4_links)`: the name of position i.
NameSegment ==
    /\ name_i < MaxParts
    /\ names' = Append(names, PartName(name_i))
    /\ name_i' = name_i + 1

(***************************************************************************)
(* The Media-Link Resolver: find_mp4_on_detail_page                        *)
(***************************************************************************)

\* Python's None where a string may stand (no string of characters equals it).
None == << "<None>" >>

S_download == <<"d", "o", "w", "n", "l", "o", "a", "d">>
S_single_video_download ==
    <<"s", "i", "n", "g", "l", "e", "-", "v", "i", "d", "e", "o", "-",
      "d", "o", "w", "n", "l", "o", "a", "d">>
S_btn == <<"b", "t", "n">>
S_down == <<"d", "o", "w", "n">>
S_HTTP == <<"H", "T", "T", "P", " ">>
S_NoPattern ==
    <<"N", "o", " ", "M", "P", "4", " ", "l", "i", "n", "k", " ",
      "p", "a", "t", "t", "e", "r", "n", " ", "f", "o", "u", "n", "d">>

\* re.compile(r"(?i)download|single-video-download").search(cls)
ClassMatchesP1(cls) ==
    \/ Contains(Lower(cls), S_download)
    \/ Contains(Lower(cls), S_single_video_download)

\* re.compile(r"(?i)download|btn.*down").search(cls)
ClassMatchesP3(cls) ==
    \/ Contains(Lower(cls), S_download)
    \/ \E k, m \in 1..Len(cls) :
          /\ OccursAt(Lower(cls), S_btn, k)
          /\ OccursAt(Lower(cls), S_down, m)
          /\ m >= k + Len(S_btn)

\* re.compile(r"\.mp4(?:$|\?|#)", re.I).search(href)
HrefMatchesMp4(href) ==
    \E k \in 1..Len(href) :
        /\ OccursAt(Lower(href), S_mp4, k)
        /\ \/ k + Len(S_mp4) = Len(href) + 1
           \/ href[k + Len(S_mp4)] \in {"?", "#"}

\* ".mp4" in href.lower()
HasMp4(href) == Contains(Lower(href), S_mp4)

(* A parsed detail page is the sequence, in document order, of its <a> and  *)
(* <button> elements:                                                      *)
(*   a        TRUE for an <a> element, FALSE for a <button> outside any <a> *)
(*   has_href whether the <a> carries an href attribute                    *)
(*   href     the href's value                                             *)
(*   btn      the class of the <button> nested in the <a> (or of the bare  *)
(*            button); <<>> when there is no button with a class           *)
Elem(a, has_href, href, btn) == [a |-> a, has_href |-> has_href, href |-> href, btn |-> btn]

\* What a return statement of the function yields; strategy is the pattern
\* whose return statement it was (0: none of the three).
Returned(url, reason, strategy) ==
    [raised |-> FALSE, url |-> url, reason |-> reason, strategy |-> strategy, text |-> <<>>]

\* An exception leaving a block, with the text str(e) gives.
Raised(text) ==
    [raised |-> TRUE, url |-> None, reason |-> None, strategy |-> 0, text |-> text]

NoMatch == Returned(None, None, 0)

\* The least element of a non-empty set of positions.
First(S) == CHOOSE k \in S : \A m \in S : k <= m

\* Pattern 1: the first <a href> holding a download-class button whose href
\* contains ".mp4".
Pattern1(page) ==
    LET hits == {k \in 1..Len(page) :
                    /\ page[k].a /\ page[k].has_href
                    /\ page[k].btn # <<>> /\ ClassMatchesP1(page[k].btn)
                    /\ HasMp4(page[k].href)}
    IN IF hits = {} THEN NoMatch ELSE Returned(page[First(hits)].href, None, 1)

\* Pattern 2: the first <a> whose href matches the anchored .mp4 expression.
Pattern2(page) ==
    LET hits == {k \in 1..Len(page) :
                    page[k].a /\ page[k].has_href /\ HrefMatchesMp4(page[k].href)}
    IN IF hits = {} THEN NoMatch ELSE Returned(page[First(hits)].href, None, 2)

\* Pattern 3: the first button of download class whose enclosing <a> has an
\* href containing ".mp4".
Pattern3(page) ==
    LET hits == {k \in 1..Len(page) :
                    /\ page[k].btn # <<>> /\ ClassMatchesP3(page[k].btn)
                    /\ page[k].a /\ page[k].has_href
                    /\ HasMp4(page[k].href)}
    IN IF hits = {} THEN NoMatch ELSE Returned(page[First(hits)].href, None, 3)

\* A faulty variant: the direct-link pattern tried before the button pattern.
ScanPageDirectFirst(page) ==
    IF Pattern2(page) # NoMatch THEN Pattern2(page)
    ELSE IF Pattern1(page) # NoMatch THEN Pattern1(page)
    ELSE IF Pattern3(page) # NoMatch THEN Pattern3(page)
    ELSE Returned(None, S_NoPattern, 0)

\* Lines 97-117: the three patterns in program order, then the fixed reason.
ScanPage(page) ==
    IF Pattern1(page) # NoMatch THEN Pattern1(page)
    ELSE IF Pattern2(page) # NoMatch THEN Pattern2(page)
    ELSE IF Pattern3(page) # NoMatch THEN Pattern3(page)
    ELSE Returned(None, S_NoPattern, 0)

\* The least status the function reports as an HTTP failure.
HttpErrorMin == 400

(* What requests.get and the parse do for one call:                        *)
(*   [kind |-> "raise", text]        get or BeautifulSoup raises, str(e) = text *)
(*   [kind |-> "ok", status, page]   a response with that status and body  *)
FetchRaises(text) == [kind |-> "raise", text |-> text, status |-> 0, page |-> <<>>]
FetchGives(status, page) == [kind |-> "ok", text |-> <<>>, status |-> status, page |-> page]

\* The body of the try block, lines 91-117.
ResolverTry(f) ==
    IF f.kind = "raise" THEN Raised(f.text)
    ELSE IF f.status >= HttpErrorMin THEN Returned(None, S_HTTP \o Digits(f.status), 0)
    ELSE ScanPage(f.page)

\* The length str(e) is cut to.
ReasonMaxLen == 70

\* A faulty variant: the except clause returns str(e) whole.
FindMp4Uncut(f) ==
    LET b == ResolverTry(f)
    IN IF b.raised THEN Returned(None, b.text, 0) ELSE b

\* find_mp4_on_detail_page: the try block, and the except clause that turns
\* any exception into (None, str(e)[:70]).
find_mp4_on_detail_page(f) ==
    LET b == ResolverTry(f)
    IN IF b.raised THEN Returned(None, Slice(b.text, 1, ReasonMaxLen), 0) ELSE b

\* ---- the inputs of the resolver's own specification

H_a_mp4 == <<"/", "a", ".", "m", "p", "4">>
H_b_MP4q == <<"/", "b", ".", "M", "P", "4", "?", "x">>
H_c_mp4v == <<"/", "c", ".", "m", "p", "4", "v">>
K_download == <<"D", "o", "w", "n", "l", "o", "a", "d">>
K_btn_down == <<"b", "t", "n", "-", "d", "o", "w", "n">>
K_play == <<"p", "l", "a", "y">>

ResolverHrefs == {H_a_mp4, H_b_MP4q, H_c_mp4v, <<>>}
ResolverClasses == {<<>>, K_download, K_btn_down, K_play}

ResolverElems ==
    {Elem(TRUE, TRUE, h, c) : h \in ResolverHrefs, c \in ResolverClasses}
    \cup {Elem(TRUE, FALSE, <<>>, K_download)}
    \cup {Elem(FALSE, FALSE, <<>>, c) : c \in {K_download, K_btn_down}}

\* The most elements of a detail page.
MaxPageElems == 2

\* The longest exception text.
MaxExcLen == 72

SeqsUpTo(S, n) == UNION {[1..k -> S] : k \in 0..n}

ResolverStatuses == {200, 399, 400, 503}

ExcText(n) == [k \in 1..n |-> "e"]

ResolverFetches ==
    {FetchGives(st, pg) : st \in ResolverStatuses, pg \in SeqsUpTo(ResolverElems, MaxPageElems)}
    \cup {FetchRaises(ExcText(n)) : n \in 0..MaxExcLen}

ResIdle == res_in = FetchRaises(<<>>) /\ res_pc = "idle" /\ res_out = NoMatch

\* The call find_mp4_on_detail_page(detail_url), its whole body.
ResolveCall ==
    /\ res_pc = "call"
    /\ res_out' = find_mp4_on_detail_page(res_in)
    /\ res_pc' = IF res_out'.raised THEN "raised" ELSE "returned"
    /\ UNCHANGED res_in

(***************************************************************************)
(* urllib.parse.urljoin                                                    *)
(***************************************************************************)

S_scheme_sep == <<":", "/", "/">>
S_http == <<"h", "t", "t", "p", ":", "/", "/">>
S_https == <<"h", "t", "t", "p", "s", ":", "/", "/">>

\* Line 25.
BASE_URL ==
    <<"h", "t", "t", "p", "s", ":", "/", "/",
      "w", "w", "w", ".", "a", "z", "n", "u", "d", "e", ".", "c", "o", "m">>

\* The position of the first occurrence of sub in s (0: none).
Find(s, sub) ==
    LET hits == {k \in 1..Len(s) : OccursAt(s, sub, k)}
    IN IF hits = {} THEN 0 ELSE First(hits)

\* urlunsplit drops an empty fragment and an empty query: a final "#" that is
\* the reference's only "#", then a final "?" that is its only "?".
DropEmptyTail(u) ==
    LET noFrag == IF u # <<>> /\ Find(u, <<"#">>) = Len(u) THEN Slice(u, 1, Len(u) - 1) ELSE u
    IN IF noFrag # <<>> /\ Find(noFrag, <<"#">>) = 0 /\ Find(noFrag, <<"?">>) = Len(noFrag)
       THEN Slice(noFrag, 1, Len(noFrag) - 1) ELSE noFrag

\* The base's scheme with its colon, its scheme://netloc, and its path.
SchemeOf(base) == Slice(base, 1, Find(base, S_scheme_sep))

OriginOf(base) ==
    LET from == Find(base, S_scheme_sep) + Len(S_scheme_sep)
        rest == Slice(base, from, Len(base))
        slash == Find(rest, <<"/">>)
    IN IF slash = 0 THEN base ELSE Slice(base, 1, from + slash - 2)

PathOf(base) == Slice(base, Len(OriginOf(base)) + 1, Len(base))

\* The base path up to and with its last "/" ("/" for an empty path).
DirOf(path) ==
    LET slashes == {k \in 1..Len(path) : path[k] = "/"}
    IN IF slashes = {} THEN <<"/">>
       ELSE Slice(path, 1, CHOOSE k \in slashes : \A m \in slashes : m <= k)

\* urljoin(base, url) for an http(s) base and a reference that is absolute
\* (http:// or https://), scheme-relative (//host/..), rooted (/..) or a plain
\* relative path without dot segments.
urljoin(base, url) ==
    LET u == DropEmptyTail(url)
        head == Lower(Slice(u, 1, Len(S_https)))
    IN IF url = <<>> THEN base
       ELSE IF StartsWith(head, S_http) THEN S_http \o Slice(u, Len(S_http) + 1, Len(u))
       ELSE IF StartsWith(head, S_https) THEN S_https \o Slice(u, Len(S_https) + 1, Len(u))
       ELSE IF StartsWith(u, <<"/", "/">>) THEN SchemeOf(base) \o u
       ELSE IF StartsWith(u, <<"/">>) THEN OriginOf(base) \o u
       ELSE OriginOf(base) \o DirOf(PathOf(base)) \o u

(***************************************************************************)
(* The Detail-Page Locator: get_video_detail_pages                         *)
(***************************************************************************)

ImageSuffixes ==
    { <<".", "j", "p", "g">>, <<".", "j", "p", "e", "g">>, <<".", "p", "n", "g">>,
      <<".", "g", "i", "f">>, <<".", "w", "e", "b", "p">> }

S_html == <<".", "h", "t", "m", "l">>
S_embed == <<"/", "e", "m", "b", "e", "d", "/">>
S_mrskin == <<"/", "m", "r", "s", "k", "i", "n", "/">>
S_azncdn == <<"/", "a", "z", "n", "c", "d", "n", "/">>
S_hd == <<"h", "d">>
S_video == <<"v", "i", "d", "e", "o">>

\* str.strip(), for the blank.
RECURSIVE Strip(_)
Strip(s) ==
    IF s = <<>> THEN s
    ELSE IF s[1] = " " THEN Strip(Tail(s))
    ELSE IF s[Len(s)] = " " THEN Strip(SubSeq(s, 1, Len(s) - 1))
    ELSE s

\* str.lstrip("/")
RECURSIVE LStripSlash(_)
LStripSlash(s) == IF s # <<>> /\ s[1] = "/" THEN LStripSlash(Tail(s)) ELSE s

\* href.lower().endswith(('.jpg', '.jpeg', '.png', '.gif', '.webp'))
IsImage(href) == LET l == Lower(href) IN \E suf \in ImageSuffixes : EndsWith(l, suf)

HexChars == {"0", "1", "2", "3", "4", "5", "6", "7", "8", "9", "a", "b", "c", "d", "e", "f"}

\* The least number of hex characters of the hash pattern.
HashMinLen == 8

\* re.search(r'[a-f0-9]{8,}-?hd', href, re.I): somewhere "hd" stands right
\* after a run of at least 8 hex characters, or after such a run and one "-"
\* (a run of 8 or more ends there exactly when the 8 characters before do).
HashHd(href) ==
    LET l == Lower(href)
        HexRunEndsAt(e) ==
            e >= HashMinLen /\ \A m \in (e - HashMinLen + 1)..e : l[m] \in HexChars
    IN \E p \in 1..Len(l) :
          /\ OccursAt(l, S_hd, p)
          /\ \/ HexRunEndsAt(p - 1)
             \/ p >= 2 /\ l[p - 1] = "-" /\ HexRunEndsAt(p - 2)

(* An <a> element of the markup:                                            *)
(*   has_href  whether it carries an href (find_all("a", href=True))        *)
(*   href      the href's value                                             *)
(*   data_type the data-type attribute (<<>>: absent)                       *)
(*   eid       the eid attribute (<<>>: absent or empty)                    *)
(*   in_c      whether it lies inside the first                             *)
(*             <div class="single-page_content-container">                  *)
Anchor(has_href, href, data_type, eid, in_c) ==
    [has_href |-> has_href, href |-> href, data_type |-> data_type, eid |-> eid, in_c |-> in_c]

\* Lines 36-42: the anchors find_all yields, in document order: those of the
\* container when the markup has one, else those of the whole document.
Scanned(markup) ==
    LET keep == {k \in 1..Len(markup.anchors) :
                    /\ markup.anchors[k].has_href
                    /\ markup.has_container => markup.anchors[k].in_c}
        RECURSIVE Pick(_)
        Pick(k) == IF k > Len(markup.anchors) THEN <<>>
                   ELSE (IF k \in keep THEN <<markup.anchors[k]>> ELSE <<>>) \o Pick(k + 1)
    IN Pick(1)

\* A faulty variant: no `continue` after the embed rule, so an anchor with an
\* embed eid is also put to the html-suffix rule.
ContributionFallsThrough(a) ==
    LET href == Strip(a.href)
        clean_path == LStripSlash(a.eid)
        by_eid == IF a.eid # <<>> /\ Contains(a.eid, S_embed) /\ EndsWith(clean_path, S_html)
                  THEN {clean_path} ELSE {}
        by_href == IF EndsWith(href, S_html)
                      /\ (HashHd(href) \/ Contains(href, S_mrskin) \/ Contains(href, S_azncdn))
                   THEN {href} ELSE {}
    IN IF IsImage(href) THEN {}
       ELSE IF a.data_type = S_video THEN {href}
       ELSE by_eid \cup by_href

\* Lines 43-71, one turn of the loop: the strings the anchor adds to
\* candidates (none or one).
Contribution(a) ==
    LET href == Strip(a.href)
        clean_path == LStripSlash(a.eid)
    IN IF IsImage(href) THEN {}
       ELSE IF a.data_type = S_video THEN {href}
       ELSE IF a.eid # <<>> /\ Contains(a.eid, S_embed)
            THEN (IF EndsWith(clean_path, S_html) THEN {clean_path} ELSE {})
       ELSE IF EndsWith(href, S_html)
               /\ (HashHd(href) \/ Contains(href, S_mrskin) \/ Contains(href, S_azncdn))
            THEN {href}
       ELSE {}

\* Line 40 and the loop of lines 42-71: the set candidates.
Candidates(markup) ==
    LET scanned == Scanned(markup)
    IN UNION {Contribution(scanned[k]) : k \in 1..Len(scanned)}

Range(f) == {f[k] : k \in DOMAIN f}

\* The orders in which `for path in candidates` can yield the elements of a
\* set of strings: the set's iteration order follows the strings' hashes,
\* which are salted per process, so every order is possible.
IterationOrders(S) ==
    {o \in [1..Cardinality(S) -> S] : \A a, b \in 1..Cardinality(S) : a # b => o[a] # o[b]}

\* A faulty variant: every resolved path is appended, seen or not.
FullUrlsUnseen(order) == [k \in 1..Len(order) |-> urljoin(BASE_URL, order[k])]

\* Lines 74-80: urljoin on each path in turn, keeping a URL's first occurrence.
RECURSIVE FullUrls(_)
FullUrls(order) ==
    IF order = <<>> THEN <<>>
    ELSE LET prev == FullUrls(SubSeq(order, 1, Len(order) - 1))
             full == urljoin(BASE_URL, order[Len(order)])
         IN IF full \in Range(prev) THEN prev ELSE Append(prev, full)

\* The lists get_video_detail_pages(main_html) can return.
get_video_detail_pages(markup) ==
    {FullUrls(o) : o \in IterationOrders(Candidates(markup))}

\* ---- the inputs of the locator's own specification

L_mrskin_a == <<"/", "m", "r", "s", "k", "i", "n", "/", "a", ".", "h", "t", "m", "l">>
L_azncdn_b == <<"/", "a", "z", "n", "c", "d", "n", "/", "b", ".", "h", "t", "m", "l">>
L_hash == <<"/", "0", "1", "2", "3", "A", "B", "C", "D", "h", "d", ".", "h", "t", "m", "l">>
L_plain == <<"/", "p", ".", "h", "t", "m", "l">>
L_image == <<"/", "i", ".", "J", "P", "G">>
L_v == <<"/", "v">>
L_abs_mrskin_a == BASE_URL \o L_mrskin_a
L_blank_mrskin_a == <<" ">> \o L_mrskin_a
L_image_frag == <<"/", "a", ".", "j", "p", "g", "#">>
E_embed_html == <<"/", "e", "m", "b", "e", "d", "/", "e", ".", "h", "t", "m", "l">>
E_embed_bare == <<"/", "e", "m", "b", "e", "d", "/", "e">>

\* The anchors of the container (or of a document without one).
LocAnchors(in_c) ==
    {Anchor(TRUE, h, <<>>, <<>>, in_c) :
        h \in {L_mrskin_a, L_azncdn_b, L_hash, L_plain, L_image, L_abs_mrskin_a, L_blank_mrskin_a}}
    \cup {Anchor(TRUE, h, S_video, <<>>, in_c) : h \in {L_v, L_image, L_image_frag, E_embed_html}}
    \cup {Anchor(TRUE, L_hash, <<>>, E_embed_html, in_c),
          Anchor(TRUE, L_mrskin_a, <<>>, E_embed_bare, in_c),
          Anchor(FALSE, <<>>, S_video, <<>>, in_c)}

\* The anchors outside the container.
OuterAnchors == {Anchor(TRUE, L_azncdn_b, <<>>, <<>>, FALSE), Anchor(TRUE, L_image, <<>>, <<>>, FALSE)}

\* The most <a> elements of a markup.
MaxAnchors == 2

\* The anchors inside the container: a plain accepted link and a marked one.
InnerAnchors == {a \in LocAnchors(TRUE) : a.href \in {L_mrskin_a, L_v} /\ a.eid = <<>>}

\* The markups without a container hold any anchors; those with a container
\* hold anchors inside it and outside it.
Markups ==
    {[has_container |-> FALSE, anchors |-> as] : as \in SeqsUpTo(LocAnchors(FALSE), MaxAnchors)}
    \cup {[has_container |-> TRUE, anchors |-> as] :
             as \in SeqsUpTo(InnerAnchors \cup OuterAnchors, MaxAnchors)}

\* The number of calls made on one markup.
MaxRuns == 2

NoMarkup == [has_container |-> FALSE, anchors |-> <<>>]

LocIdle == loc_in = NoMarkup /\ loc_runs = <<>>

\* One call get_video_detail_pages(main_html).
Locate ==
    /\ Len(loc_runs) < MaxRuns
    /\ \E urls \in get_video_detail_pages(loc_in) : loc_runs' = Append(loc_runs, urls)
    /\ UNCHANGED loc_in

(***************************************************************************)
(* The record pipeline (az_download_logic) and the worklist loop (main)    *)
(***************************************************************************)

S_NoDetail ==
    <<"N", "o", " ", "v", "i", "d", "e", "o", " ", "d", "e", "t", "a", "i", "l", " ",
      "H", "T", "M", "L", " ", "p", "a", "g", "e", "s", " ", "f", "o", "u", "n", "d">>
S_NoLinksHead ==
    <<"N", "o", " ", "M", "P", "4", " ", "l", "i", "n", "k", "s", " ", "f", "o", "u", "n", "d", " ",
      "a", "f", "t", "e", "r", " ", "c", "h", "e", "c", "k", "i", "n", "g", " ">>
S_NoLinksTail == <<" ", "p", "a", "g", "e", "s">>
S_DONE == <<"D", "O", "N", "E">>
S_FAILED == <<"F", "A", "I", "L", "E", "D">>
S_files_txt == <<"f", "i", "l", "e", "s", ".", "t", "x", "t">>
S_dash == <<" ", "-", " ">>
S_file_quote == <<"f", "i", "l", "e", " ", "'">>
S_https_only == <<"h", "t", "t", "p", "s", ":", "/", "/">>
S_tmp_prefix == <<"/", "t", "m", "p", "/", "a", "z", "_", "2", "0", "2", "6", "_">>

\* str(e) of the exceptions the environment raises.
X_boom == <<"b", "o", "o", "m">>
X_status == <<"5", "0", "3", " ", "S", "e", "r", "v", "e", "r", " ", "E", "r", "r", "o", "r">>
X_timeout == <<"R", "e", "a", "d", " ", "t", "i", "m", "e", "d", " ", "o", "u", "t">>

\* What the fetch of a segment does: the body arrives, the server answers with
\* an error status, or the transport fails (timeout, connection error).
SegmentFetches == {"ok", "status", "timeout"}

\* A faulty variant: no raise_for_status, an error status passes as a body.
SegmentRaisesTransportOnly(kind) == kind = "timeout"

\* Lines 152-153: requests.get raises on a transport failure, and
\* raise_for_status on an error status.
SegmentRaises(kind) == kind # "ok"

\* str(e) of the exception of a failed segment fetch.
SegmentError(kind) == IF kind = "status" THEN X_status ELSE X_timeout

\* What upload_file may return.
UploadResults ==
    { [success |-> TRUE, msg |-> <<"u", "p", "l", "o", "a", "d", "e", "d">>],
      [success |-> FALSE, msg |-> <<"r", "e", "f", "u", "s", "e", "d">>] }

\* The exit statuses of ffmpeg.
FfmpegExits == {0, 1}

\* os.path.join(dir, name)
PathJoin(dir, name) == dir \o <<"/">> \o name

\* title.replace('/', '_')
ReplaceSlash(title) == [k \in 1..Len(title) |-> IF title[k] = "/" THEN "_" ELSE title[k]]

\* f"{number:02d} - {title.replace('/', '_')}.mp4"
OutputName(number, title) == Format02d(number) \o S_dash \o ReplaceSlash(title) \o S_mp4

\* f"file '{p}'\n", without the line end.
ManifestLine(path) == S_file_quote \o path \o <<"'">>

\* tempfile.mkdtemp(prefix="az_2026_"): a name no earlier call returned.
TempDirName(k) == S_tmp_prefix \o Digits(k)

\* The paths at or below dir.
Below(dir, paths) == {q \in paths : q = dir \/ StartsWith(q, dir \o <<"/">>)}

\* A faulty variant: the directory is left behind.
RmtreeSkipped(dir, paths) == paths

\* shutil.rmtree(temp_dir, ignore_errors=True): the directory and all it holds.
Rmtree(dir, paths) == paths \ Below(dir, paths)

\* A faulty variant: subprocess.run without check=True.
FfmpegUnchecked(rc) == FALSE

\* subprocess.run(..., check=True) raises CalledProcessError on a non-zero exit.
FfmpegRaises(rc) == rc # 0

\* A faulty variant: the resolved URL is used as it is.
FullMp4Bare(mp4_url) == mp4_url

\* Line 142: the resolved URL made absolute when it starts with "/".
FullMp4(mp4_url) ==
    IF StartsWith(mp4_url, <<"/">>) THEN urljoin(S_https_only, mp4_url) ELSE mp4_url

\* A faulty variant: a failed resolution empties the list collected so far.
CollectOrReset(links, r) ==
    IF r.url # None /\ r.url # <<>> THEN Append(links, FullMp4(r.url)) ELSE <<>>

\* Lines 139-143: `if mp4_url:` appends the URL, a failure appends nothing.
Collect(links, r) ==
    IF r.url # None /\ r.url # <<>> THEN Append(links, FullMp4(r.url)) ELSE links

\* ---- the worklist

T_slash == <<"A", "/", "B">>
T_plain == <<"C">>
Link_own == BASE_URL \o <<"/", "c", "/", "1", ".", "h", "t", "m", "l">>
Link_other == <<"h", "t", "t", "p", "s", ":", "/", "/", "m", ".", "i", "o", "/", "c", ".", "h", "t", "m", "l">>
S_id == <<"i", "d">>

\* The k-th pending row of the sheet (the sheet's first row holds the headers).
WorklistRow(k) ==
    [row |-> k + 1,
     Title |-> IF k % 2 = 1 THEN T_slash ELSE T_plain,
     Link |-> IF k % 2 = 1 THEN Link_own ELSE Link_other,
     Identifier |-> S_id \o Digits(k)]

\* The longest worklist.
MaxRows == 2

\* The numbers get_max_assigned_number may return.
AssignedNumbers == {0, 98}

\* ---- what the web serves

\* The most detail links of a content page: in a run of main over a whole
\* worklist, and in a run over a single record.
MaxMainLinks == 1
MaxDetailPages == 3

PipeHrefs == <<L_mrskin_a, L_azncdn_b, L_hash, L_abs_mrskin_a, L_blank_mrskin_a>>

\* The content pages: n links of PipeHrefs (taken in turn), in a container.
ContentPage(n) ==
    [has_container |-> TRUE,
     anchors |-> [k \in 1..n |-> Anchor(TRUE, PipeHrefs[((k - 1) % Len(PipeHrefs)) + 1],
                                        <<>>, <<>>, TRUE)]]

ContentPages(most) == {ContentPage(n) : n \in 0..most}

S_cdn == <<"h", "t", "t", "p", "s", ":", "/", "/", "c", "d", "n", ".", "i", "o">>

\* The media path a detail page links to.
MediaPath(detail_url) == PathOf(detail_url) \o S_mp4

\* A media URL several detail pages may link to.
SharedMedia == S_cdn \o <<"/", "s">> \o S_mp4

\* What the fetch of a detail page does: the page holds a download button
\* around an absolute media link, or a bare rooted media link, or a bare
\* scheme-relative media link (//host/path), or a bare link to a media URL
\* other pages link to as well, or the server answers 404.
DetailFetch(detail_url, kind) ==
    CASE kind = "abs" ->
           FetchGives(200, <<Elem(TRUE, TRUE, S_cdn \o MediaPath(detail_url), K_download)>>)
      [] kind = "rooted" ->
           FetchGives(200, <<Elem(TRUE, TRUE, MediaPath(detail_url), <<>>)>>)
      [] kind = "netpath" ->
           FetchGives(200, <<Elem(TRUE, TRUE, <<"/", "/", "c", ".", "i", "o">>
                                                \o MediaPath(detail_url), <<>>)>>)
      [] kind = "shared" ->
           FetchGives(200, <<Elem(TRUE, TRUE, SharedMedia, <<>>)>>)
      [] kind = "gone" -> FetchGives(404, <<>>)

DetailKinds == {"abs", "rooted", "netpath", "shared", "gone"}

\* ---- az_download_logic

NoResult == [success |-> FALSE, msg |-> None]

Failure(msg) == [success |-> FALSE, msg |-> msg]

\* An external operation az_download_logic made: what it was made on, whether
\* it went well, the str(e) of the exception it raised and the pair it
\* returned (for upload_file).
Op(op, arg, ok) == [op |-> op, arg |-> arg, ok |-> ok, err |-> None, ret |-> NoResult]

Raise(op, arg, text) == [op |-> op, arg |-> arg, ok |-> FALSE, err |-> text, ret |-> NoResult]

Return(op, arg, pair) ==
    [op |-> op, arg |-> arg, ok |-> pair.success, err |-> None, ret |-> pair]

\* The locals of az_download_logic before its first statement.
FreshLocals ==
    /\ temp_dir' = None
    /\ video_detail_urls' = <<>>
    /\ mp4_links' = <<>>
    /\ parts' = <<>>
    /\ manifest' = <<>>
    /\ output' = None
    /\ result' = NoResult
    /\ ops' = <<>>
    /\ resolved' = <<>>
    /\ downloads' = <<>>

\* A faulty variant: the statement that raised is run again.
ExceptRetries(text) == result' = result /\ pc' = pc

\* Lines 184-187: an exception raised inside the try block reaches the except
\* clause, which returns (False, str(e)); the finally clause is next.
Except(text) == result' = Failure(text) /\ pc' = "finally"

\* Line 124, before the try: mkdtemp makes the directory, or raises (no
\* space, no permission); no handler encloses it, in the function or in main.
Mkdtemp ==
    /\ pc = "mkdtemp"
    /\ \/ /\ temp_dir' = TempDirName(Cardinality(created))
          /\ fs' = fs \cup {temp_dir'}
          /\ created' = created \cup {temp_dir'}
          /\ pc' = "get_page"
       \/ /\ pc' = "crashed"
          /\ UNCHANGED <<temp_dir, fs, created>>
    /\ UNCHANGED <<mainVars, video_detail_urls, mp4_links, parts, manifest, output, result,
                   ops, resolved, downloads>>

\* A faulty variant: the empty list is not tested.
NoPagesUntested(urls) == FALSE

\* Line 133: `if not video_detail_urls`.
NoPages(urls) == urls = <<>>

\* Lines 128-134: the content page is fetched and the locator run on it.
GetPage ==
    /\ pc = "get_page"
    /\ \/ /\ ops' = Append(ops, Raise("page", rows[row_i].Link, X_boom))
          /\ Except(X_boom) /\ UNCHANGED video_detail_urls
       \/ \E page \in site : \E urls \in get_video_detail_pages(page) :
             /\ ops' = Append(ops, Op("page", rows[row_i].Link, TRUE))
             /\ video_detail_urls' = urls
             /\ IF NoPages(urls)
                THEN result' = Failure(S_NoDetail) /\ pc' = "finally"
                ELSE pc' = "resolve" /\ UNCHANGED result
    /\ UNCHANGED <<mainVars, fs, temp_dir, mp4_links, parts, manifest, output, created,
                   resolved, downloads>>

\* Lines 138-146: one turn of the loop over video_detail_urls, and after the
\* last turn the test of mp4_links.
ResolveDetail ==
    /\ pc = "resolve"
    /\ Len(resolved) < Len(video_detail_urls)
    /\ LET detail_url == video_detail_urls[Len(resolved) + 1]
       IN \E kind \in DetailKinds :
            LET r == find_mp4_on_detail_page(DetailFetch(detail_url, kind))
            IN /\ ops' = Append(ops, Op("detail", detail_url, TRUE))
               /\ resolved' = Append(resolved, [detail |-> detail_url, res |-> r])
               /\ IF r.raised
                  THEN Except(r.text) /\ UNCHANGED mp4_links
                  ELSE /\ mp4_links' = Collect(mp4_links, r)
                       /\ IF Len(resolved') < Len(video_detail_urls)
                          THEN UNCHANGED <<pc, result>>
                          ELSE IF mp4_links' = <<>>
                               THEN /\ result' = Failure(S_NoLinksHead
                                                         \o Digits(Len(video_detail_urls))
                                                         \o S_NoLinksTail)
                                    /\ pc' = "finally"
                               ELSE pc' = "download" /\ UNCHANGED result
    /\ UNCHANGED <<mainVars, fs, temp_dir, video_detail_urls, parts, manifest, output,
                   created, downloads>>

\* Lines 150-158: one turn of the loop over mp4_links. The request fails
\* (before the file is opened, or while the body is being written to it), or
\* the body is written to part_NN.mp4.
DownloadSegment ==
    /\ pc = "download"
    /\ Len(parts) < Len(mp4_links)
    /\ LET i == Len(parts)
           url == mp4_links[i + 1]
           path == PathJoin(temp_dir, PartName(i))
       IN \E kind \in SegmentFetches :
            IF SegmentRaises(kind)
            THEN /\ ops' = Append(ops, Raise("segment", url, SegmentError(kind)))
                 /\ Except(SegmentError(kind))
                 /\ fs' \in IF kind = "timeout" THEN {fs, fs \cup {path}} ELSE {fs}
                 /\ UNCHANGED <<parts, downloads>>
            ELSE /\ ops' = Append(ops, Op("segment", url, kind = "ok"))
                 /\ fs' = fs \cup {path}
                 /\ parts' = Append(parts, path)
                 /\ downloads' = Append(downloads, [url |-> url, path |-> path])
                 /\ pc' = IF Len(parts') < Len(mp4_links) THEN "download" ELSE "manifest"
                 /\ UNCHANGED result
    /\ UNCHANGED <<mainVars, temp_dir, video_detail_urls, mp4_links, manifest, output,
                   created, resolved>>

\* Lines 161-166: files.txt is written, one line per part, and the output
\* path is named; or the write fails.
WriteManifest ==
    /\ pc = "manifest"
    /\ \/ /\ fs' = fs \cup {PathJoin(temp_dir, S_files_txt)}
          /\ manifest' = [k \in 1..Len(parts) |-> ManifestLine(parts[k])]
          /\ output' = PathJoin(temp_dir, OutputName(next_number, rows[row_i].Title))
          /\ pc' = "ffmpeg"
          /\ UNCHANGED result
       \/ /\ Except(X_boom)
          /\ UNCHANGED <<fs, manifest, output>>
    /\ UNCHANGED <<mainVars, temp_dir, video_detail_urls, mp4_links, parts, created, ops,
                   resolved, downloads>>

\* Lines 168-179: ffmpeg runs on the manifest; check=True turns a non-zero
\* exit into an exception. A failed run may leave a partial output file.
RunFfmpeg ==
    /\ pc = "ffmpeg"
    /\ \E rc \in FfmpegExits :
          /\ ops' = Append(ops, Op("ffmpeg", output, rc = 0))
          /\ fs' \in IF rc = 0 THEN {fs \cup {output}} ELSE {fs, fs \cup {output}}
          /\ IF FfmpegRaises(rc) THEN Except(X_boom) ELSE pc' = "upload" /\ UNCHANGED result
    /\ UNCHANGED <<mainVars, temp_dir, video_detail_urls, mp4_links, parts, manifest, output,
                   created, resolved, downloads>>

\* A faulty variant: the upload's pair is returned as a success.
UploadOutcomeAsSuccess(u) == [success |-> TRUE, msg |-> u.msg]

\* Line 182: `return upload_file(...)`, the pair as upload_file returned it.
UploadOutcome(u) == u

\* Line 182: return upload_file(output, identifier); upload_file returns its
\* pair or raises.
Upload ==
    /\ pc = "upload"
    /\ \/ \E u \in UploadResults :
             /\ ops' = Append(ops, Return("upload", output, u))
             /\ result' = UploadOutcome(u)
             /\ pc' = "finally"
       \/ /\ ops' = Append(ops, Raise("upload", output, X_boom))
          /\ Except(X_boom)
    /\ UNCHANGED <<mainVars, fs, temp_dir, video_detail_urls, mp4_links, parts, manifest,
                   output, created, resolved, downloads>>

\* Lines 189-190: the finally clause, then the return of the result.
Finally ==
    /\ pc = "finally"
    /\ fs' = Rmtree(temp_dir, fs)
    /\ pc' = "returned"
    /\ UNCHANGED <<mainVars, temp_dir, video_detail_urls, mp4_links, parts, manifest, output,
                   result, created, ops, resolved, downloads>>

\* ---- main

Update(row, status, number, msg) ==
    [row |-> row, status |-> status, number |-> number, msg |-> msg]

\* The blank update_row is given for a number or a message.
Blank == <<>>

\* Lines 197-207: the next record of the loop is taken and az_download_logic
\* is called on it.
BeginRecord ==
    /\ pc = "for"
    /\ row_i < Len(rows)
    /\ row_i' = row_i + 1
    /\ next_number' = current_number + 1
    /\ FreshLocals
    /\ pc' = "mkdtemp"
    /\ UNCHANGED <<site, rows, current_number, updates, max_assigned, fs, created>>

\* A faulty variant: current_number is left as it was.
NotCounted(number) == number

\* Line 211: current_number += 1.
Counted(number) == number + 1

\* Lines 209-213: the status of the record is written.
UpdateRow ==
    /\ pc = "returned"
    /\ IF result.success
       THEN /\ updates' = Append(updates, Update(rows[row_i].row, S_DONE, <<next_number>>, Blank))
            /\ current_number' = Counted(current_number)
       ELSE /\ updates' = Append(updates, Update(rows[row_i].row, S_FAILED, Blank, result.msg))
            /\ UNCHANGED current_number
    /\ pc' = "for"
    /\ UNCHANGED <<site, rows, row_i, next_number, max_assigned, recVars>>

\* The loop is over: main returns.
MainReturns ==
    /\ pc = "for"
    /\ row_i = Len(rows)
    /\ pc' = "done"
    /\ UNCHANGED <<mainVars, recVars>>

PipeIdle ==
    /\ pc = "idle"
    /\ site = {} /\ rows = <<>> /\ current_number = 0 /\ row_i = 0 /\ next_number = 0 /\ updates = <<>>
    /\ max_assigned = 0
    /\ fs = {} /\ temp_dir = None /\ video_detail_urls = <<>> /\ mp4_links = <<>>
    /\ parts = <<>> /\ manifest = <<>> /\ output = None /\ result = NoResult
    /\ created = {} /\ ops = <<>> /\ resolved = <<>> /\ downloads = <<>>

\* main after lines 194-195: the worklist and the greatest assigned number
\* are read. lengths are the worklist lengths of the run, most the most detail
\* links of a content page.
InitMain(lengths, most) ==
    /\ pc = "for"
    /\ site = ContentPages(most)
    /\ \E n \in lengths : rows = [k \in 1..n |-> WorklistRow(k)]
    /\ current_number \in AssignedNumbers /\ max_assigned = current_number
    /\ row_i = 0 /\ next_number = 0 /\ updates = <<>>
    /\ fs = {} /\ temp_dir = None /\ video_detail_urls = <<>> /\ mp4_links = <<>>
    /\ parts = <<>> /\ manifest = <<>> /\ output = None /\ result = NoResult
    /\ created = {} /\ ops = <<>> /\ resolved = <<>> /\ downloads = <<>>

(***************************************************************************)
(* Specifications                                                          *)
(***************************************************************************)

InitNames == NamesIdle /\ ResIdle /\ LocIdle /\ PipeIdle

NextNames == NameSegment /\ UNCHANGED <<resVars, locVars, pipeVars>>

\* The names of the segments of one download loop.
SpecNames == InitNames /\ [][NextNames]_vars

InitResolver ==
    /\ res_in \in ResolverFetches /\ res_pc = "call" /\ res_out = NoMatch
    /\ NamesIdle /\ LocIdle /\ PipeIdle

NextResolver == ResolveCall /\ UNCHANGED <<nameVars, locVars, pipeVars>>

\* One call of the resolver on any fetch behaviour.
SpecResolver == InitResolver /\ [][NextResolver]_vars

InitLocator == loc_in \in Markups /\ loc_runs = <<>> /\ NamesIdle /\ ResIdle /\ PipeIdle

NextLocator == Locate /\ UNCHANGED <<nameVars, resVars, pipeVars>>

\* Calls of the locator on one markup.
SpecLocator == InitLocator /\ [][NextLocator]_vars

Init == InitMain(0..MaxRows, MaxMainLinks) /\ NamesIdle /\ ResIdle /\ LocIdle

otherVars == <<nameVars, resVars, locVars>>

Next ==
    \/ BeginRecord /\ UNCHANGED otherVars
    \/ Mkdtemp /\ UNCHANGED otherVars
    \/ GetPage /\ UNCHANGED otherVars
    \/ ResolveDetail /\ UNCHANGED otherVars
    \/ DownloadSegment /\ UNCHANGED otherVars
    \/ WriteManifest /\ UNCHANGED otherVars
    \/ RunFfmpeg /\ UNCHANGED otherVars
    \/ Upload /\ UNCHANGED otherVars
    \/ Finally /\ UNCHANGED otherVars
    \/ UpdateRow /\ UNCHANGED otherVars
    \/ MainReturns /\ UNCHANGED otherVars

\* One run of main over a worklist.
Spec == Init /\ [][Next]_vars

InitRecord == InitMain({1}, MaxDetailPages) /\ NamesIdle /\ ResIdle /\ LocIdle

\* One run of main over a worklist of one record, whose content page may hold
\* more detail links.
SpecRecord == InitRecord /\ [][Next]_vars

(***************************************************************************)
(* Properties                                                              *)
(***************************************************************************)

\* az_download_logic is not running: it has returned, or an exception has
\* left it.
OutsideRecord == pc \in {"for", "returned", "done", "crashed"}

\* main has ended: it returned, or an exception left it.
MainEnded == pc \in {"done", "crashed"}

\* C1: on every exit path of az_download_logic the temporary directory made at
\* entry, and every file inside it, no longer exists when the function is left.
C1_TempDirRemoved ==
    OutsideRecord => \A d \in created : Below(d, fs) = {}

\* C1 witness: a record that wrote segments, the manifest and the merged file
\* has returned, and nothing is left.
C1_Witness ==
    /\ pc = "returned" /\ temp_dir \in created
    /\ downloads # <<>> /\ manifest # <<>>
    /\ \E k \in 1..Len(ops) : ops[k].op = "ffmpeg" /\ ops[k].ok
    /\ fs = {}

\* The update_row calls made for the k-th record.
UpdatesOf(k) == {u \in 1..Len(updates) : updates[u].row = rows[k].row}

\* C2: main issues exactly one update_row call per record of the worklist
\* (never two, and once main has ended never none), and the call is DONE with
\* the assigned number or FAILED with the diagnostic message.
C2_ExactlyOneUpdate ==
    /\ \A k \in 1..Len(rows) : Cardinality(UpdatesOf(k)) <= 1
    /\ MainEnded => \A k \in 1..Len(rows) : Cardinality(UpdatesOf(k)) = 1
    /\ \A u \in 1..Len(updates) :
          \/ updates[u].status = S_DONE /\ Len(updates[u].number) = 1 /\ updates[u].msg = Blank
          \/ updates[u].status = S_FAILED /\ updates[u].number = Blank

\* C3: the records are processed one at a time in worklist order, the status
\* of record k is written before record k+1 starts, and whatever fails, every
\* record of the worklist has received its status write when main ends.
C3_EveryRecordInOrder ==
    /\ \A u \in 1..Len(updates) : updates[u].row = rows[u].row
    /\ row_i <= Len(updates) + 1
    /\ (pc \notin {"for", "done"} => row_i = Len(updates) + 1)
    /\ MainEnded => Len(updates) = Len(rows)

\* C4: no exception raised in the per-record pipeline, the creation of the
\* temporary directory included, leaves az_download_logic for the main loop.
C4_NoExceptionEscapes == pc # "crashed"

\* ffmpeg was run for this record and exited non-zero.
MuxFailed == \E k \in 1..Len(ops) : ops[k].op = "ffmpeg" /\ ~ops[k].ok

\* C5: once ffmpeg has exited non-zero for a record, upload_file is not called
\* for that record, the record's outcome is FAILED, and FAILED is what main
\* writes for it.
C5_MuxFailureNoUpload ==
    MuxFailed =>
        /\ \A k \in 1..Len(ops) : ops[k].op # "upload"
        /\ pc \notin {"upload"}
        /\ ~result.success
        /\ pc \in {"for", "done"} =>
              /\ Len(updates) = row_i
              /\ updates[row_i].status = S_FAILED

\* C5 witness: ffmpeg exited non-zero and the record's status has been written.
C5_Witness ==
    /\ MuxFailed /\ pc = "for" /\ Len(updates) = row_i
    /\ updates[row_i].status = S_FAILED /\ updates[row_i].msg = X_boom

\* The resolver's result is a URL.
Resolves(r) == r.url # None

\* A media URL that starts with "/" put under the https scheme: "https:" before
\* a scheme-relative //host/path, "https://" before a rooted /path.
UnderHttps(url) ==
    IF Len(url) >= 2 /\ url[1] = "/" /\ url[2] = "/"
    THEN <<"h", "t", "t", "p", "s", ":">> \o url
    ELSE <<"h", "t", "t", "p", "s", ":", "/", "/">> \o url

\* The media URLs of the pages that resolved, in the order of the pages.
RECURSIVE ResolvedUrls(_)
ResolvedUrls(rs) ==
    IF rs = <<>> THEN <<>>
    ELSE LET prev == ResolvedUrls(SubSeq(rs, 1, Len(rs) - 1))
             r == rs[Len(rs)].res
         IN IF Resolves(r)
            THEN Append(prev, IF r.url[1] = "/" THEN UnderHttps(r.url) ELSE r.url)
            ELSE prev

\* C6: a detail page that fails resolution does not abort the record; the URLs
\* handed to the download step are the resolved URLs (made absolute) of the
\* pages that resolved, one per page, in the order of the detail pages, and
\* the manifest lists one segment per URL in that order.
C6_ResolvedInOrder ==
    /\ \A k \in 1..Len(resolved) : resolved[k].detail = video_detail_urls[k]
    /\ mp4_links = ResolvedUrls(resolved)
    /\ (pc \in {"download", "manifest", "ffmpeg", "upload"} \/ downloads # <<>>) =>
          /\ Len(resolved) = Len(video_detail_urls)
          /\ \A k \in 1..Len(downloads) : downloads[k].url = mp4_links[k]
    /\ manifest # <<>> =>
          /\ Len(manifest) = Len(mp4_links) /\ Len(downloads) = Len(mp4_links)
          /\ \A k \in 1..Len(manifest) : manifest[k] = ManifestLine(downloads[k].path)
          /\ \A a, b \in 1..Len(downloads) : a # b => downloads[a].path # downloads[b].path

\* C6 witness: of three detail pages the second failed and the others
\* resolved to different URLs; both were downloaded and listed in that order.
C6_Witness ==
    /\ Len(resolved) = 3
    /\ Resolves(resolved[1].res) /\ ~Resolves(resolved[2].res) /\ Resolves(resolved[3].res)
    /\ Len(mp4_links) = 2 /\ mp4_links[1] # mp4_links[2]
    /\ Len(manifest) = 2
    /\ downloads[1].url = mp4_links[1] /\ downloads[2].url = mp4_links[2]

\* The position in ops of a segment fetch that failed, if there is one.
FailedSegments == {k \in 1..Len(ops) : ops[k].op = "segment" /\ ~ops[k].ok}

\* C11: when the fetch of a segment fails (error status, timeout or connection
\* error) at any position of the media URL sequence, it is the last external
\* operation of the record (no later segment fetch, no ffmpeg run, no upload),
\* the record's outcome is FAILED with the text of the raised error, and that
\* is what main writes.
C11_SegmentFailureAborts ==
    \A k \in FailedSegments :
        /\ k = Len(ops)
        /\ pc \notin {"download", "manifest", "ffmpeg", "upload"}
        /\ manifest = <<>> /\ output = None
        /\ result = Failure(ops[k].err) /\ ops[k].err # None
        /\ pc \in {"for", "done"} =>
              /\ Len(updates) = row_i
              /\ updates[row_i] = Update(rows[row_i].row, S_FAILED, Blank, ops[k].err)

\* C11 witness: the first segment was fetched, the fetch of the second was
\* answered with an error status, and FAILED was written with its text.
C11_Witness ==
    /\ Len(downloads) = 1 /\ Len(mp4_links) >= 3
    /\ FailedSegments = {Len(ops)}
    /\ ops[Len(ops)].arg = mp4_links[2] /\ ops[Len(ops)].err = X_status
    /\ pc = "for" /\ updates[row_i].status = S_FAILED /\ updates[row_i].msg = X_status

\* The content page of the record was fetched and the locator found nothing
\* on it.
NothingLocated ==
    /\ ops # <<>> /\ ops[1].op = "page" /\ ops[1].ok
    /\ video_detail_urls = <<>>

C12_Message ==
    <<"N", "o", " ", "v", "i", "d", "e", "o", " ", "d", "e", "t", "a", "i", "l", " ",
      "H", "T", "M", "L", " ", "p", "a", "g", "e", "s", " ", "f", "o", "u", "n", "d">>

\* C12: when the content page is fetched and the locator returns the empty
\* list, az_download_logic returns (False, "No video detail HTML pages found")
\* without any further external operation and without an exception, and main
\* writes FAILED with that message.
C12_NoPagesIsExplicitFailure ==
    NothingLocated =>
        /\ Len(ops) = 1
        /\ pc \in {"finally", "returned", "for", "done"}
        /\ result = [success |-> FALSE, msg |-> C12_Message]
        /\ pc \in {"for", "done"} =>
              /\ Len(updates) = row_i
              /\ updates[row_i].status = S_FAILED /\ updates[row_i].number = Blank
              /\ updates[row_i].msg = C12_Message

\* C12 witness: a page without links was fetched for the second record and
\* FAILED was written with the message.
C12_Witness ==
    /\ NothingLocated /\ pc = "for" /\ row_i = 2 /\ Len(updates) = 2
    /\ updates[2].status = S_FAILED /\ updates[2].msg = C12_Message

\* The positions in ops of the calls of upload_file.
UploadCalls == {k \in 1..Len(ops) : ops[k].op = "upload"}

\* ffmpeg has merged the segments of the record.
Merged == \E k \in 1..Len(ops) : ops[k].op = "ffmpeg" /\ ops[k].ok

\* C13: upload_file is called at most once per record, and only after the
\* page fetch, every segment fetch and the ffmpeg run succeeded; once they
\* have, it is called; and the pair it returns is the outcome of the record
\* unchanged, whether its flag is true (main writes DONE with the number) or
\* false (main writes FAILED with the pair's message).
C13_UploadResultPassedThrough ==
    /\ Cardinality(UploadCalls) <= 1
    /\ (Merged /\ pc # "upload") => UploadCalls # {}
    /\ \A k \in UploadCalls :
          /\ k = Len(ops) /\ k > 1
          /\ ops[k - 1].op = "ffmpeg" /\ \A j \in 1..(k - 1) : ops[j].ok
          /\ mp4_links # <<>> /\ Len(downloads) = Len(mp4_links)
          /\ Len(manifest) = Len(mp4_links)
          /\ ops[k].err = None =>
                /\ result = ops[k].ret
                /\ pc \in {"for", "done"} =>
                      /\ Len(updates) = row_i
                      /\ updates[row_i] =
                            IF ops[k].ret.success
                            THEN Update(rows[row_i].row, S_DONE, <<next_number>>, Blank)
                            ELSE Update(rows[row_i].row, S_FAILED, Blank, ops[k].ret.msg)

\* C13 witness: the upload of the first record returned a true flag and DONE
\* was written; the upload of the second returned (False, "refused") and
\* FAILED was written with that message.
C13_Witness ==
    /\ pc = "for" /\ Len(updates) = 2
    /\ updates[1].status = S_DONE
    /\ UploadCalls # {} /\ ~ops[Len(ops)].ret.success /\ ops[Len(ops)].err = None
    /\ updates[2].status = S_FAILED
    /\ updates[2].msg = <<"r", "e", "f", "u", "s", "e", "d">>

\* C14: the list get_video_detail_pages returns holds no absolute URL twice,
\* also when different accepted strings (two hrefs, or an href and an eid
\* value) resolve to the same absolute URL.
C14_NoDuplicateUrls ==
    \A r \in 1..Len(loc_runs) :
        \A a, b \in 1..Len(loc_runs[r]) : a # b => loc_runs[r][a] # loc_runs[r][b]

\* C14 witness: an href with the video marker and the eid of another anchor
\* are different strings that resolve to one URL, returned once.
C14_Witness ==
    /\ Len(loc_runs) >= 1
    /\ Candidates(loc_in) = {E_embed_html, LStripSlash(E_embed_html)}
    /\ E_embed_html # LStripSlash(E_embed_html)
    /\ loc_runs[1] = <<BASE_URL \o E_embed_html>>

\* C15: no URL of the list get_video_detail_pages returns ends in an image
\* suffix (.jpg, .jpeg, .png, .gif, .webp, in either case), whichever rule
\* accepted its link; the URL meant is the absolute URL after resolution.
C15_NoImageUrl ==
    \A r \in 1..Len(loc_runs) : \A k \in 1..Len(loc_runs[r]) : ~IsImage(loc_runs[r][k])

\* The segment fetches of the record, in the order they were made.
SegmentOps == SelectSeq(ops, LAMBDA o : o.op = "segment")

\* The resolutions of the record that gave a URL, in the order they were made.
Resolutions == SelectSeq(resolved, LAMBDA e : Resolves(e.res))

\* C16: the k-th segment fetch is made on the URL of the k-th resolution; when
\* that URL begins with "/" the fetch is made on the URL put under the https
\* scheme (never on the bare path), and when it does not, on the URL unchanged.
C16_BarePathMadeAbsolute ==
    /\ Len(SegmentOps) <= Len(Resolutions)
    /\ \A k \in 1..Len(SegmentOps) :
          LET mp4_url == Resolutions[k].res.url
              fetched == SegmentOps[k].arg
          IN /\ fetched[1] # "/"
             /\ IF mp4_url[1] = "/"
                THEN /\ fetched = UnderHttps(mp4_url)
                     /\ StartsWith(fetched, <<"h", "t", "t", "p", "s", ":", "/", "/">>)
                     /\ EndsWith(fetched, mp4_url)
                ELSE fetched = mp4_url

\* C16 witness: a rooted path, a scheme-relative URL and an absolute URL were
\* resolved and each was fetched: https:///mrskin/a.html.mp4 for the first.
C16_Witness ==
    /\ Len(SegmentOps) = 3 /\ Len(Resolutions) = 3
    /\ Resolutions[1].res.url = L_mrskin_a \o <<".", "m", "p", "4">>
    /\ SegmentOps[1].arg = <<"h", "t", "t", "p", "s", ":", "/", "/">> \o L_mrskin_a
                              \o <<".", "m", "p", "4">>
    /\ StartsWith(Resolutions[2].res.url, <<"/", "/", "c">>)
    /\ StartsWith(SegmentOps[2].arg, <<"h", "t", "t", "p", "s", ":", "/", "/", "c">>)
    /\ Resolutions[3].res.url = SegmentOps[3].arg

\* The accepted strings resolved against the URL page_url, in the given order,
\* a URL's first occurrence kept.
RECURSIVE ResolvedAgainst(_, _)
ResolvedAgainst(page_url, order) ==
    IF order = <<>> THEN <<>>
    ELSE LET prev == ResolvedAgainst(page_url, SubSeq(order, 1, Len(order) - 1))
             full == urljoin(page_url, order[Len(order)])
         IN IF full \in Range(prev) THEN prev ELSE Append(prev, full)

\* C17: the detail URLs located for a record are the hrefs accepted on its
\* content page resolved against the URL of that page (the record's Link), so
\* a relative href found on a page of host H gives a URL under H.
C17_ResolvedAgainstOwnPage ==
    video_detail_urls # <<>> =>
        /\ \E page \in site : \E o \in IterationOrders(Candidates(page)) :
               video_detail_urls = ResolvedAgainst(rows[row_i].Link, o)
        /\ \A k \in 1..Len(video_detail_urls) :
               StartsWith(video_detail_urls[k], OriginOf(rows[row_i].Link) \o <<"/">>)

\* The positions in updates of the DONE writes, and how many of the first n
\* writes are DONE.
DoneWrites == {u \in 1..Len(updates) : updates[u].status = S_DONE}

DoneUpTo(n) == Cardinality({u \in DoneWrites : u <= n})

\* The record of this turn is inside az_download_logic or waits for its write.
InRecord == pc \notin {"idle", "for", "done"}

\* C18: the numbers written with DONE are max+1, max+2, ... in worklist order,
\* max being what get_max_assigned_number returned before the loop: the j-th
\* DONE carries max+j. A FAILED record consumes no number: the number passed
\* to a record is max + 1 + the number of DONE records before it. The number
\* written with DONE is the number in the name of that record's merged file.
C18_ConsecutiveNumbers ==
    /\ \A u \in DoneWrites : updates[u].number = <<max_assigned + DoneUpTo(u)>>
    /\ \A u, v \in DoneWrites : u < v => updates[u].number[1] < updates[v].number[1]
    /\ InRecord => next_number = max_assigned + DoneUpTo(Len(updates)) + 1
    /\ (output # None /\ InRecord) =>
          StartsWith(output, temp_dir \o <<"/">> \o Format02d(next_number) \o <<" ", "-", " ">>)
    /\ (pc \in {"for", "done"} /\ row_i > 0 /\ Len(updates) = row_i /\ row_i \in DoneWrites) =>
          /\ output # None
          /\ StartsWith(output, temp_dir \o <<"/">> \o Format02d(updates[row_i].number[1])
                                          \o <<" ", "-", " ">>)

\* C18 witness: max was 98, two records were DONE with 99 and 100, and the
\* merged file of the second was named "100 - C.mp4".
C18_Witness ==
    /\ max_assigned = 98 /\ pc = "for" /\ Len(updates) = 2
    /\ updates[1].status = S_DONE /\ updates[1].number = <<99>>
    /\ updates[2].status = S_DONE /\ updates[2].number = <<100>>
    /\ EndsWith(output, <<"/", "1", "0", "0", " ", "-", " ", "C", ".", "m", "p", "4">>)

\* C18 second case: the first record FAILED and the second was DONE with the
\* number the first was given.
C18_FailedConsumesNone ==
    /\ pc = "for" /\ Len(updates) = 2
    /\ updates[1].status = S_FAILED
    /\ updates[2].status = S_DONE /\ updates[2].number = <<max_assigned + 1>>

\* An anchor that reaches the embed rule: its href is not an image, it has no
\* video marker, and its eid contains "/embed/".
EmbedAnchor(a) ==
    /\ ~IsImage(Strip(a.href)) /\ a.data_type # S_video
    /\ Contains(a.eid, <<"/", "e", "m", "b", "e", "d", "/">>)

\* What an anchor gives by the claim: an embed anchor its eid without leading
\* slashes when that ends in .html, and nothing otherwise.
ByEmbedRuleAlone(a) ==
    IF EmbedAnchor(a)
    THEN (IF EndsWith(LStripSlash(a.eid), <<".", "h", "t", "m", "l">>)
          THEN {LStripSlash(a.eid)} ELSE {})
    ELSE Contribution(a)

\* C19: an anchor with a non-image href, no video marker and an eid that
\* contains "/embed/" is decided by the embed rule alone: the returned URLs are
\* those of the eid values ending in .html (and of what the other anchors
\* give); the href of such an anchor is never put to the html-suffix rule,
\* even when it ends in .html and matches the hash or provider pattern.
C19_EmbedRuleDecidesAlone ==
    LET scanned == Scanned(loc_in)
        urls == {urljoin(BASE_URL, c) :
                    c \in UNION {ByEmbedRuleAlone(scanned[k]) : k \in 1..Len(scanned)}}
    IN \A r \in 1..Len(loc_runs) : Range(loc_runs[r]) = urls

\* C19 witness: one anchor whose eid is /embed/e and whose href /mrskin/a.html
\* would pass the html-suffix rule gives nothing, and one whose eid is
\* /embed/e.html and whose href would pass as well gives the eid's URL only.
C19_Witness ==
    /\ Len(loc_runs) >= 1
    /\ Len(Scanned(loc_in)) = 2
    /\ Scanned(loc_in)[1] = Anchor(TRUE, L_mrskin_a, <<>>, E_embed_bare, FALSE)
    /\ Scanned(loc_in)[2] = Anchor(TRUE, L_hash, <<>>, E_embed_html, FALSE)
    /\ loc_runs[1] = <<BASE_URL \o E_embed_html>>

\* The detail-page fetches of the record, in the order they were made.
DetailOps == SelectSeq(ops, LAMBDA o : o.op = "detail")

\* The place of an operation's stage in the pipeline.
StageOf(o) ==
    CASE o.op = "page" -> 1 [] o.op = "detail" -> 2 [] o.op = "segment" -> 3
      [] o.op = "ffmpeg" -> 4 [] o.op = "upload" -> 5

HowMany(op) == Cardinality({k \in 1..Len(ops) : ops[k].op = op})

\* C20 (amended): within a record the operations are made in pipeline order
\* (page, detail pages, segments, ffmpeg, upload), the page, ffmpeg and upload
\* at most once; the k-th detail fetch is on the k-th located page and the
\* located pages differ, so each is fetched at most once, and all have been
\* fetched once when the first segment is; the k-th segment fetch is on the
\* k-th entry of the resolved media URLs, so each entry is fetched at most
\* once, and all have been fetched when ffmpeg runs; upload follows a
\* successful ffmpeg; an operation that raised is the last of the record.
C20_EachEntryOnceInOrder ==
    /\ \A j, k \in 1..Len(ops) : j < k => StageOf(ops[j]) <= StageOf(ops[k])
    /\ ops # <<>> => ops[1].op = "page"
    /\ HowMany("page") <= 1 /\ HowMany("ffmpeg") <= 1 /\ HowMany("upload") <= 1
    /\ Len(DetailOps) <= Len(video_detail_urls)
    /\ \A k \in 1..Len(DetailOps) : DetailOps[k].arg = video_detail_urls[k]
    /\ \A a, b \in 1..Len(DetailOps) : a # b => DetailOps[a].arg # DetailOps[b].arg
    /\ SegmentOps # <<>> => Len(DetailOps) = Len(video_detail_urls)
    /\ Len(SegmentOps) <= Len(mp4_links)
    /\ \A k \in 1..Len(SegmentOps) : SegmentOps[k].arg = mp4_links[k]
    /\ HowMany("ffmpeg") > 0 =>
          /\ Len(SegmentOps) = Len(mp4_links)
          /\ \A k \in 1..Len(SegmentOps) : SegmentOps[k].ok
    /\ HowMany("upload") > 0 => Merged
    /\ \A k \in 1..(Len(ops) - 1) : ops[k].err = None /\ (ops[k].op # "detail" => ops[k].ok)

\* C20 (as stated): moreover each resolved media URL is fetched at most once.
C20_EachOperationOnce ==
    /\ C20_EachEntryOnceInOrder
    /\ \A a, b \in 1..Len(SegmentOps) : a # b => SegmentOps[a].arg # SegmentOps[b].arg

\* C20 witness: three detail pages were fetched, two of them resolved to one
\* media URL, which was fetched for each; then ffmpeg ran and upload was
\* called.
C20_Witness ==
    /\ Len(DetailOps) = 3 /\ Len(SegmentOps) = 3
    /\ SegmentOps[1].arg = SegmentOps[3].arg /\ SegmentOps[1].arg # SegmentOps[2].arg
    /\ HowMany("ffmpeg") = 1 /\ HowMany("upload") = 1
    /\ pc = "returned"

\* The filenames are in strictly increasing lexical order.
LexSorted(files) == \A a, b \in 1..Len(files) : a < b => LexLess(files[a], files[b])

\* 10 ^ PadWidth: the number of indices that fit the padded width.
RECURSIVE Pow10(_)
Pow10(w) == IF w = 0 THEN 1 ELSE 10 * Pow10(w - 1)

\* C8 (as stated): for a URL sequence of any length n, sorting the n segment
\* filenames lexically yields them in the order of the URL sequence.
C8_SortedAnyLength == LexSorted(names)

\* C8 (amended): for a URL sequence of at most 100 URLs (the indices 0..99 that
\* fit two digits), the segment filenames are in strictly increasing lexical
\* order, so a lexical sort reproduces the order of the URL sequence.
C8_SortedUpTo100 == Len(names) <= Pow10(PadWidth) => LexSorted(names)

\* C8 witness: a full two-digit range of names has been produced.
C8_Witness == Len(names) = Pow10(PadWidth) /\ names[100] = PartName(99)

\* C9: find_mp4_on_detail_page never raises; it returns (url, None) with a
\* non-empty url, or (None, reason) with a reason of at most 70 characters.
C9_NeverRaisesBoundedReason ==
    res_pc # "call" =>
        /\ res_pc = "returned" /\ ~res_out.raised
        /\ \/ res_out.url # None /\ Len(res_out.url) > 0 /\ res_out.reason = None
           \/ res_out.url = None /\ res_out.reason # None
              /\ Len(res_out.reason) <= 70

\* C9 witness: a call whose fetch raised with a text longer than 70 characters
\* has returned.
C9_Witness ==
    /\ res_pc = "returned" /\ res_in.kind = "raise" /\ Len(res_in.text) > 70
    /\ res_out.url = None /\ Len(res_out.reason) = 70

\* The positions of the page's strategy-1 links and of its strategy-2 links.
S1Links(page) ==
    {k \in 1..Len(page) : /\ page[k].a /\ page[k].has_href /\ page[k].btn # <<>>
                          /\ ClassMatchesP1(page[k].btn) /\ HasMp4(page[k].href)}

S2Links(page) ==
    {k \in 1..Len(page) : page[k].a /\ page[k].has_href /\ HrefMatchesMp4(page[k].href)}

Fetched == res_pc = "returned" /\ res_in.kind = "ok" /\ res_in.status < 400

\* C10: on a fetched page with a strategy-1 link and a strategy-2 link the
\* result is the (first) strategy-1 link, wherever the two stand in the
\* document; strategy 3 yields the result only when neither 1 nor 2 matches.
C10_StrategyOrder ==
    Fetched =>
        /\ (S1Links(res_in.page) # {} /\ S2Links(res_in.page) # {}) =>
              /\ res_out.strategy = 1
              /\ res_out.url = res_in.page[First(S1Links(res_in.page))].href
        /\ res_out.strategy = 3 => S1Links(res_in.page) = {} /\ S2Links(res_in.page) = {}

\* C10 witness: the strategy-2 link stands before the strategy-1 link, they
\* are different links, and the strategy-1 link is returned.
C10_Witness ==
    /\ Fetched
    /\ S1Links(res_in.page) # {} /\ S2Links(res_in.page) # {}
    /\ First(S2Links(res_in.page)) < First(S1Links(res_in.page))
    /\ res_out.url = res_in.page[First(S1Links(res_in.page))].href
    /\ res_out.url # res_in.page[First(S2Links(res_in.page))].href

\* The accepted strings in the order their anchors are first met in the markup.
RECURSIVE DocumentOrder(_)
DocumentOrder(as) ==
    IF as = <<>> THEN <<>>
    ELSE LET prev == DocumentOrder(SubSeq(as, 1, Len(as) - 1))
             new == Contribution(as[Len(as)]) \ Range(prev)
         IN IF new = {} THEN prev ELSE Append(prev, CHOOSE x \in new : TRUE)

\* C7: the Locator returns the URLs in the order their links are first met in
\* the markup, so any two calls on the same markup return the same list.
C7_DocumentOrder ==
    /\ \A r \in 1..Len(loc_runs) : loc_runs[r] = FullUrls(DocumentOrder(Scanned(loc_in)))
    /\ \A r, q \in 1..Len(loc_runs) : loc_runs[r] = loc_runs[q]

====
